---- MODULE Spec2Model ----
(***************************************************************************)
(* A model of package rest_err (src/rest_err/rest_err.go): the RestErr     *)
(* error value, its constructors, its classification predicates and its    *)
(* integration with Go's error chains (errors.As / errors.Is / Unwrap).    *)
(*                                                                         *)
(* Go values that have identity (a *RestErr, the *errorString of           *)
(* errors.New, the *wrapError of fmt.Errorf("...%w", e)) live in `heap`;   *)
(* an address is an index of heap and Nil is Go's nil.  The backing arrays *)
(* of []Causes slices live in `arrays`: a constructor stores the slice     *)
(* header it is given, so a RestErr and its caller share one array.        *)
(***************************************************************************)
EXTENDS Integers, Sequences, FiniteSets, TLC

VARIABLES
    heap,      \* the error values allocated so far, by address
    arrays,    \* the backing arrays of the []Causes slices, by array id
    now,       \* the instant the next time.Now() returns
    ghost,     \* per address: the constructor that built it and the causes it was given
    ret        \* the last call: its operation, arguments and results

vars == <<heap, arrays, now, ghost, ret>>

(***************************************************************************)
(* Bounds of the model.                                                    *)
(***************************************************************************)
MaxHeap == 3
MaxValues == 2
MaxArrays == 1
MaxCauses == 2
MaxMsgLen == 3
MaxArgs == 2

Nil == 0

Addrs(h) == 1..Len(h)

(***************************************************************************)
(* []Causes: a slice header (array id, length); the nil slice has no array.*)
(***************************************************************************)
NilSlice == [arr |-> Nil, len |-> 0]

CauseValues ==
    { [Field |-> "email", Message |-> "invalid email format"],
      [Field |-> "password", Message |-> "too short"] }

\* The elements a slice header denotes, read through its backing array.
SliceElems(arrs, s) ==
    IF s.arr = Nil THEN <<>> ELSE SubSeq(arrs[s.arr], 1, s.len)

\* The slices a caller can pass: nil, or a prefix of an array it made.
CallerSlices(arrs) ==
    {NilSlice}
    \cup UNION { { [arr |-> a, len |-> n] : n \in 0..Len(arrs[a]) } : a \in 1..Len(arrs) }

(***************************************************************************)
(* fmt.Sprintf on the part of its language the model draws messages from:  *)
(* a format is a sequence of characters over FmtAlphabet, so that the      *)
(* character after a '%' is '%', 's', 'd' or 'u' (never a flag, a width or *)
(* an argument index), and an argument is a string or an int.              *)
(***************************************************************************)
FmtAlphabet == {"u", "s", "d", "%"}

StrArg(s) == [type |-> "string", str |-> s, int |-> 0]
IntArg(n) == [type |-> "int", str |-> "", int |-> n]

\* An argument under %v.
ArgText(a) == IF a.type = "string" THEN a.str ELSE ToString(a.int)

\* fmt's printArg: a verb the argument's type knows, or the bad-verb marker.
PrintArg(a, verb) ==
    IF (a.type = "string" /\ verb = "s") \/ (a.type = "int" /\ verb = "d")
    THEN ArgText(a)
    ELSE "%!" \o verb \o "(" \o a.type \o "=" \o ArgText(a) \o ")"

RECURSIVE ExtraArgs(_, _)
ExtraArgs(args, k) ==
    IF k > Len(args) THEN ""
    ELSE args[k].type \o "=" \o ArgText(args[k])
         \o (IF k < Len(args) THEN ", " ELSE "")
         \o ExtraArgs(args, k + 1)

\* fmt's doPrintf from position i of the format with argNum arguments consumed.
RECURSIVE DoPrintf(_, _, _, _)
DoPrintf(format, args, i, argNum) ==
    IF i > Len(format)
    THEN IF argNum < Len(args)
         THEN "%!(EXTRA " \o ExtraArgs(args, argNum + 1) \o ")"
         ELSE ""
    ELSE IF format[i] # "%"
    THEN format[i] \o DoPrintf(format, args, i + 1, argNum)
    ELSE IF i = Len(format)
    THEN "%!(NOVERB)" \o DoPrintf(format, args, i + 1, argNum)
    ELSE IF format[i + 1] = "%"
    THEN "%" \o DoPrintf(format, args, i + 2, argNum)
    ELSE IF argNum >= Len(args)
    THEN "%!" \o format[i + 1] \o "(MISSING)" \o DoPrintf(format, args, i + 2, argNum)
    ELSE PrintArg(args[argNum + 1], format[i + 1])
         \o DoPrintf(format, args, i + 2, argNum + 1)

Sprintf_IgnoresArgs(format, args) == DoPrintf(format, <<>>, 1, 0)

Sprintf(format, args) == DoPrintf(format, args, 1, 0)

RECURSIVE Text(_)
\* The Go string a sequence of characters spells.
Text(chars) == IF chars = <<>> THEN "" ELSE Head(chars) \o Text(Tail(chars))

(***************************************************************************)
(* The error values.  A *RestErr has the fields of the struct; the values  *)
(* of errors.New and fmt.Errorf keep their text in Message and, for        *)
(* fmt.Errorf's %w, the wrapped error in Wrapped.                          *)
(***************************************************************************)
IsRestErr(h, a) == a # Nil /\ h[a].kind = "RestErr"

RestErrs(h) == { a \in Addrs(h) : h[a].kind = "RestErr" }

\* errors.New(text)
ErrorsNew(text) ==
    [kind |-> "errorString", Message |-> text, Err |-> "", Code |-> 0,
     Causes |-> NilSlice, Timestamp |-> 0, Wrapped |-> Nil]

NewRestErr(message, err, code, causes) ==
    [kind |-> "RestErr", Message |-> Text(message), Err |-> err, Code |-> code,
     Causes |-> causes, Timestamp |-> now, Wrapped |-> Nil]

NewBadRequestError(message, args) ==
    [kind |-> "RestErr", Message |-> Sprintf(message, args), Err |-> "bad request", Code |-> 400,
     Causes |-> NilSlice, Timestamp |-> now, Wrapped |-> Nil]

NewBadRequestValidationError(message, causes) ==
    [kind |-> "RestErr", Message |-> Text(message), Err |-> "bad request", Code |-> 400,
     Causes |-> causes, Timestamp |-> now, Wrapped |-> Nil]

NewInternalServerError(message, args) ==
    [kind |-> "RestErr", Message |-> Sprintf(message, args), Err |-> "internal server error", Code |-> 500,
     Causes |-> NilSlice, Timestamp |-> now, Wrapped |-> Nil]

NewNotFoundError(message, args) ==
    [kind |-> "RestErr", Message |-> Sprintf(message, args), Err |-> "not found", Code |-> 404,
     Causes |-> NilSlice, Timestamp |-> now, Wrapped |-> Nil]

NewForbiddenError(message, args) ==
    [kind |-> "RestErr", Message |-> Sprintf(message, args), Err |-> "forbidden", Code |-> 403,
     Causes |-> NilSlice, Timestamp |-> now, Wrapped |-> Nil]

NewUnauthorizedError(message, args) ==
    [kind |-> "RestErr", Message |-> Sprintf(message, args), Err |-> "unauthorized", Code |-> 401,
     Causes |-> NilSlice, Timestamp |-> now, Wrapped |-> Nil]

NewBadGatewayError_GatewayTimeoutCode(message, args) ==
    [kind |-> "RestErr", Message |-> Sprintf(message, args), Err |-> "bad gateway", Code |-> 504,
     Causes |-> NilSlice, Timestamp |-> now, Wrapped |-> Nil]

NewBadGatewayError(message, args) ==
    [kind |-> "RestErr", Message |-> Sprintf(message, args), Err |-> "bad gateway", Code |-> 502,
     Causes |-> NilSlice, Timestamp |-> now, Wrapped |-> Nil]

NewConflictError(message, args) ==
    [kind |-> "RestErr", Message |-> Sprintf(message, args), Err |-> "conflict", Code |-> 409,
     Causes |-> NilSlice, Timestamp |-> now, Wrapped |-> Nil]

NewUnprocessableEntityError(message, causes) ==
    [kind |-> "RestErr", Message |-> Text(message), Err |-> "unprocessable entity", Code |-> 422,
     Causes |-> causes, Timestamp |-> now, Wrapped |-> Nil]

NewTooManyRequestsError(message, args) ==
    [kind |-> "RestErr", Message |-> Sprintf(message, args), Err |-> "too many requests", Code |-> 429,
     Causes |-> NilSlice, Timestamp |-> now, Wrapped |-> Nil]

NewServiceUnavailableError(message, args) ==
    [kind |-> "RestErr", Message |-> Sprintf(message, args), Err |-> "service unavailable", Code |-> 503,
     Causes |-> NilSlice, Timestamp |-> now, Wrapped |-> Nil]

NewGatewayTimeoutError(message, args) ==
    [kind |-> "RestErr", Message |-> Sprintf(message, args), Err |-> "gateway timeout", Code |-> 504,
     Causes |-> NilSlice, Timestamp |-> now, Wrapped |-> Nil]

NewPreconditionFailedError(message, args) ==
    [kind |-> "RestErr", Message |-> Sprintf(message, args), Err |-> "precondition failed", Code |-> 412,
     Causes |-> NilSlice, Timestamp |-> now, Wrapped |-> Nil]

NewNotAcceptableError(message, args) ==
    [kind |-> "RestErr", Message |-> Sprintf(message, args), Err |-> "not acceptable", Code |-> 406,
     Causes |-> NilSlice, Timestamp |-> now, Wrapped |-> Nil]

NewLengthRequiredError(message, args) ==
    [kind |-> "RestErr", Message |-> Sprintf(message, args), Err |-> "length required", Code |-> 411,
     Causes |-> NilSlice, Timestamp |-> now, Wrapped |-> Nil]

NewUnsupportedMediaTypeError(message, args) ==
    [kind |-> "RestErr", Message |-> Sprintf(message, args), Err |-> "unsupported media type", Code |-> 415,
     Causes |-> NilSlice, Timestamp |-> now, Wrapped |-> Nil]

NewExpectationFailedError(message, args) ==
    [kind |-> "RestErr", Message |-> Sprintf(message, args), Err |-> "expectation failed", Code |-> 417,
     Causes |-> NilSlice, Timestamp |-> now, Wrapped |-> Nil]

NewConflictValidationError_OwnClass(message, causes) ==
    [kind |-> "RestErr", Message |-> Text(message), Err |-> "conflict validation", Code |-> 409,
     Causes |-> causes, Timestamp |-> now, Wrapped |-> Nil]

NewConflictValidationError(message, causes) ==
    [kind |-> "RestErr", Message |-> Text(message), Err |-> "conflict", Code |-> 409,
     Causes |-> causes, Timestamp |-> now, Wrapped |-> Nil]

NewRequestTimeoutError(message, args) ==
    [kind |-> "RestErr", Message |-> Sprintf(message, args), Err |-> "request timeout", Code |-> 408,
     Causes |-> NilSlice, Timestamp |-> now, Wrapped |-> Nil]

NewHttpVersionNotSupportedError(message, args) ==
    [kind |-> "RestErr", Message |-> Sprintf(message, args), Err |-> "http version not supported", Code |-> 505,
     Causes |-> NilSlice, Timestamp |-> now, Wrapped |-> Nil]

(***************************************************************************)
(* Methods of *RestErr.                                                    *)
(***************************************************************************)
\* The Error() of any error value: a RestErr renders its cause with %v, which
\* calls the cause's Error(); errors.New and fmt.Errorf values return the text
\* they stored when they were made.  A chain of RestErr that closes on itself
\* never returns (see Overflows): fuel only keeps the definition total.
RECURSIVE ErrorText(_, _, _)
ErrorText(h, a, fuel) ==
    IF h[a].kind # "RestErr" THEN h[a].Message
    ELSE IF h[a].Wrapped # Nil
    THEN IF fuel = 0 THEN ""
         ELSE h[a].Message \o ": " \o ErrorText(h, h[a].Wrapped, fuel - 1)
    ELSE h[a].Message

Error_NoSeparator(h, r) ==
    IF h[r].Wrapped # Nil /\ h[h[r].Wrapped].kind # "RestErr"
    THEN h[r].Message \o h[h[r].Wrapped].Message
    ELSE ErrorText(h, r, Len(h))

Error(h, r) == ErrorText(h, r, Len(h))

\* Error() recurses for ever (Go ends the process: stack overflow) exactly when
\* the Wrapped links from a lead through RestErr values only, back to one of them.
RECURSIVE Recurses(_, _, _)
Recurses(h, a, fuel) ==
    IF a = Nil \/ h[a].kind # "RestErr" THEN FALSE
    ELSE IF fuel = 0 THEN TRUE
    ELSE Recurses(h, h[a].Wrapped, fuel - 1)

Overflows(h, a) == Recurses(h, a, Len(h))

Unwrap(h, r) == h[r].Wrapped

WithCause_KeepsFirst(h, r, err) ==
    IF h[r].Wrapped = Nil THEN [h EXCEPT ![r].Wrapped = err] ELSE h

WithCause_ClearsCauses(h, r, err) ==
    [h EXCEPT ![r].Wrapped = err, ![r].Causes = NilSlice]

\* The heap after r.WithCause(err); the call returns r.
WithCause(h, r, err) == [h EXCEPT ![r].Wrapped = err]

IsClientError_Inclusive(h, r) == h[r].Code >= 400 /\ h[r].Code <= 500

IsClientError(h, r) == h[r].Code >= 400 /\ h[r].Code < 500

IsServerError(h, r) == h[r].Code >= 500 /\ h[r].Code < 600

IsNotFound(h, r) == h[r].Code = 404

IsUnauthorized(h, r) == h[r].Code = 401

IsForbidden(h, r) == h[r].Code = 403

\* encoding/json applied to a RestErr, by the struct's tags: the object has the
\* keys message, error, code and timestamp, the key causes unless the slice is
\* empty (omitempty), and nothing for Wrapped (json:"-").
Serialized(h, arrs, r) ==
    LET always == ("message" :> h[r].Message) @@ ("error" :> h[r].Err)
                  @@ ("code" :> h[r].Code) @@ ("timestamp" :> h[r].Timestamp)
    IN IF SliceElems(arrs, h[r].Causes) = <<>> THEN always
       ELSE always @@ ("causes" :> SliceElems(arrs, h[r].Causes))

(***************************************************************************)
(* Go's error chains.  Unwrap of a RestErr and of a fmt.Errorf value is    *)
(* its Wrapped; an errors.New value has no Unwrap.                         *)
(***************************************************************************)
ChainNext(h, a) ==
    IF h[a].kind \in {"RestErr", "wrapError"} THEN h[a].Wrapped ELSE Nil

\* errors.As(err, &restErr): the first *RestErr met walking err's chain, or
\* Nil when As returns false.  The walk ends: it stops at the first RestErr,
\* and only a RestErr can be made to point back (WithCause).
RECURSIVE ErrorsAs(_, _)
ErrorsAs(h, err) ==
    IF err = Nil THEN Nil
    ELSE IF h[err].kind = "RestErr" THEN err
    ELSE ErrorsAs(h, ChainNext(h, err))

\* errors.Is(err, target) for values compared by address: "true", "false", or
\* "loop" when the walk goes round a cycle that does not hold target.
RECURSIVE IsWalk(_, _, _, _)
IsWalk(h, err, target, fuel) ==
    IF err = target THEN "true"
    ELSE IF err = Nil THEN "false"
    ELSE IF fuel = 0 THEN "loop"
    ELSE IsWalk(h, ChainNext(h, err), target, fuel - 1)

ErrorsIs(h, err, target) == IsWalk(h, err, target, Len(h))

\* fmt.Errorf(prefix + ": %w", inner): the text is made when Errorf is called.
FmtErrorf(h, prefix, inner) ==
    [kind |-> "wrapError", Message |-> prefix \o ": " \o Error(h, inner), Err |-> "",
     Code |-> 0, Causes |-> NilSlice, Timestamp |-> 0, Wrapped |-> inner]

(***************************************************************************)
(* NewRestErrFromError and ParseError: the result and the heap after.      *)
(***************************************************************************)
NewRestErrFromError_AlwaysNew(err) ==
    IF err = Nil THEN [res |-> Nil, heap |-> heap]
    ELSE [res |-> Len(heap) + 1,
          heap |-> Append(heap,
             [kind |-> "RestErr", Message |-> "An unexpected error occurred",
              Err |-> "internal server error", Code |-> 500, Causes |-> NilSlice,
              Timestamp |-> now, Wrapped |-> err])]

NewRestErrFromError_LeaksText(err) ==
    IF err = Nil THEN [res |-> Nil, heap |-> heap]
    ELSE IF ErrorsAs(heap, err) # Nil THEN [res |-> ErrorsAs(heap, err), heap |-> heap]
    ELSE [res |-> Len(heap) + 1,
          heap |-> Append(heap,
             [kind |-> "RestErr", Message |-> Error(heap, err),
              Err |-> "internal server error", Code |-> 500, Causes |-> NilSlice,
              Timestamp |-> now, Wrapped |-> err])]

NewRestErrFromError_NoCause(err) ==
    IF err = Nil THEN [res |-> Nil, heap |-> heap]
    ELSE IF ErrorsAs(heap, err) # Nil THEN [res |-> ErrorsAs(heap, err), heap |-> heap]
    ELSE [res |-> Len(heap) + 1,
          heap |-> Append(heap,
             [kind |-> "RestErr", Message |-> "An unexpected error occurred",
              Err |-> "internal server error", Code |-> 500, Causes |-> NilSlice,
              Timestamp |-> now, Wrapped |-> Nil])]

NewRestErrFromError(err) ==
    IF err = Nil THEN [res |-> Nil, heap |-> heap]
    ELSE IF ErrorsAs(heap, err) # Nil THEN [res |-> ErrorsAs(heap, err), heap |-> heap]
    ELSE [res |-> Len(heap) + 1,
          heap |-> Append(heap,
             [kind |-> "RestErr", Message |-> "An unexpected error occurred",
              Err |-> "internal server error", Code |-> 500, Causes |-> NilSlice,
              Timestamp |-> now, Wrapped |-> err])]

ParseError_Inner(err) ==
    LET found == ErrorsAs(heap, err) IN
    IF err = Nil \/ found = Nil THEN [res |-> Nil, ok |-> FALSE]
    ELSE IF IsRestErr(heap, heap[found].Wrapped)
         THEN [res |-> heap[found].Wrapped, ok |-> TRUE]
         ELSE [res |-> found, ok |-> TRUE]

ParseError_DirectOnly(err) ==
    IF err = Nil THEN [res |-> Nil, ok |-> FALSE]
    ELSE IF heap[err].kind = "RestErr" THEN [res |-> err, ok |-> TRUE]
    ELSE [res |-> Nil, ok |-> FALSE]

ParseError(err) ==
    IF err = Nil THEN [res |-> Nil, ok |-> FALSE]
    ELSE IF ErrorsAs(heap, err) # Nil THEN [res |-> ErrorsAs(heap, err), ok |-> TRUE]
    ELSE [res |-> Nil, ok |-> FALSE]

(***************************************************************************)
(* The calls.  Every call leaves in ret what it was given and what it      *)
(* returned; pre is the number of values allocated before it.              *)
(***************************************************************************)
Ret(op, arg, arg2, res, ok, str, message, args) ==
    [op |-> op, arg |-> arg, arg2 |-> arg2, res |-> res, ok |-> ok, str |-> str,
     pre |-> Len(heap), message |-> message, args |-> args]

Ghost(ctor, causes) == [ctor |-> ctor, causes0 |-> SliceElems(arrays, causes)]

\* Room for one more value.
CanAllocate == Len(heap) < MaxHeap

\* A constructor call: the new RestErr is allocated and its address returned.
Construct(op, obj, message, args, causes) ==
    /\ CanAllocate
    /\ heap' = Append(heap, obj)
    /\ now' = now + 1
    /\ ghost' = Append(ghost, Ghost(op, causes))
    /\ ret' = Ret(op, Nil, Nil, Len(heap) + 1, TRUE, "", message, args)
    /\ UNCHANGED arrays

Call_NewRestErr(message, err, code, causes) ==
    Construct("NewRestErr", NewRestErr(message, err, code, causes), message, <<>>, causes)

Call_NewBadRequestError(message, args) ==
    Construct("NewBadRequestError", NewBadRequestError(message, args), message, args, NilSlice)

Call_NewBadRequestValidationError(message, causes) ==
    Construct("NewBadRequestValidationError", NewBadRequestValidationError(message, causes), message, <<>>, causes)

Call_NewInternalServerError(message, args) ==
    Construct("NewInternalServerError", NewInternalServerError(message, args), message, args, NilSlice)

Call_NewNotFoundError(message, args) ==
    Construct("NewNotFoundError", NewNotFoundError(message, args), message, args, NilSlice)

Call_NewForbiddenError(message, args) ==
    Construct("NewForbiddenError", NewForbiddenError(message, args), message, args, NilSlice)

Call_NewUnauthorizedError(message, args) ==
    Construct("NewUnauthorizedError", NewUnauthorizedError(message, args), message, args, NilSlice)

Call_NewBadGatewayError(message, args) ==
    Construct("NewBadGatewayError", NewBadGatewayError(message, args), message, args, NilSlice)

Call_NewConflictError(message, args) ==
    Construct("NewConflictError", NewConflictError(message, args), message, args, NilSlice)

Call_NewUnprocessableEntityError(message, causes) ==
    Construct("NewUnprocessableEntityError", NewUnprocessableEntityError(message, causes), message, <<>>, causes)

Call_NewTooManyRequestsError(message, args) ==
    Construct("NewTooManyRequestsError", NewTooManyRequestsError(message, args), message, args, NilSlice)

Call_NewServiceUnavailableError(message, args) ==
    Construct("NewServiceUnavailableError", NewServiceUnavailableError(message, args), message, args, NilSlice)

Call_NewGatewayTimeoutError(message, args) ==
    Construct("NewGatewayTimeoutError", NewGatewayTimeoutError(message, args), message, args, NilSlice)

Call_NewPreconditionFailedError(message, args) ==
    Construct("NewPreconditionFailedError", NewPreconditionFailedError(message, args), message, args, NilSlice)

Call_NewNotAcceptableError(message, args) ==
    Construct("NewNotAcceptableError", NewNotAcceptableError(message, args), message, args, NilSlice)

Call_NewLengthRequiredError(message, args) ==
    Construct("NewLengthRequiredError", NewLengthRequiredError(message, args), message, args, NilSlice)

Call_NewUnsupportedMediaTypeError(message, args) ==
    Construct("NewUnsupportedMediaTypeError", NewUnsupportedMediaTypeError(message, args), message, args, NilSlice)

Call_NewExpectationFailedError(message, args) ==
    Construct("NewExpectationFailedError", NewExpectationFailedError(message, args), message, args, NilSlice)

Call_NewConflictValidationError(message, causes) ==
    Construct("NewConflictValidationError", NewConflictValidationError(message, causes), message, <<>>, causes)

Call_NewRequestTimeoutError(message, args) ==
    Construct("NewRequestTimeoutError", NewRequestTimeoutError(message, args), message, args, NilSlice)

Call_NewHttpVersionNotSupportedError(message, args) ==
    Construct("NewHttpVersionNotSupportedError", NewHttpVersionNotSupportedError(message, args), message, args, NilSlice)

Call_NewRestErrFromError(err) ==
    LET out == NewRestErrFromError(err) IN
    /\ Len(out.heap) <= MaxHeap
    /\ heap' = out.heap
    /\ now' = IF Len(out.heap) > Len(heap) THEN now + 1 ELSE now
    /\ ghost' = IF Len(out.heap) > Len(heap)
                THEN Append(ghost, Ghost("NewRestErrFromError", NilSlice))
                ELSE ghost
    /\ ret' = Ret("NewRestErrFromError", err, Nil, out.res, out.res # Nil, "", <<>>, <<>>)
    /\ UNCHANGED arrays

Call_ParseError(err) ==
    LET out == ParseError(err) IN
    /\ ret' = Ret("ParseError", err, Nil, out.res, out.ok, "", <<>>, <<>>)
    /\ UNCHANGED <<heap, arrays, now, ghost>>

Call_WithCause(r, err) ==
    /\ heap' = WithCause(heap, r, err)
    /\ ret' = Ret("WithCause", r, err, r, TRUE, "", <<>>, <<>>)
    /\ UNCHANGED <<arrays, now, ghost>>

Call_Unwrap(r) ==
    /\ ret' = Ret("Unwrap", r, Nil, Unwrap(heap, r), TRUE, "", <<>>, <<>>)
    /\ UNCHANGED <<heap, arrays, now, ghost>>

\* r.Error(); ok is FALSE when the call never returns (Overflows).
Call_Error(r) ==
    /\ ret' = IF Overflows(heap, r)
              THEN Ret("Error", r, Nil, Nil, FALSE, "", <<>>, <<>>)
              ELSE Ret("Error", r, Nil, Nil, TRUE, Error(heap, r), <<>>, <<>>)
    /\ UNCHANGED <<heap, arrays, now, ghost>>

Call_IsClientError(r) ==
    /\ ret' = Ret("IsClientError", r, Nil, Nil, IsClientError(heap, r), "", <<>>, <<>>)
    /\ UNCHANGED <<heap, arrays, now, ghost>>

Call_IsServerError(r) ==
    /\ ret' = Ret("IsServerError", r, Nil, Nil, IsServerError(heap, r), "", <<>>, <<>>)
    /\ UNCHANGED <<heap, arrays, now, ghost>>

Call_IsNotFound(r) ==
    /\ ret' = Ret("IsNotFound", r, Nil, Nil, IsNotFound(heap, r), "", <<>>, <<>>)
    /\ UNCHANGED <<heap, arrays, now, ghost>>

Call_IsUnauthorized(r) ==
    /\ ret' = Ret("IsUnauthorized", r, Nil, Nil, IsUnauthorized(heap, r), "", <<>>, <<>>)
    /\ UNCHANGED <<heap, arrays, now, ghost>>

Call_IsForbidden(r) ==
    /\ ret' = Ret("IsForbidden", r, Nil, Nil, IsForbidden(heap, r), "", <<>>, <<>>)
    /\ UNCHANGED <<heap, arrays, now, ghost>>

(***************************************************************************)
(* What the callers of the package do around it: make plain errors and     *)
(* wrap errors (errors.New, fmt.Errorf), make a []Causes slice, write an   *)
(* element of a slice they made.                                           *)
(***************************************************************************)
Call_ErrorsNew(text) ==
    /\ CanAllocate
    /\ heap' = Append(heap, ErrorsNew(text))
    /\ ghost' = Append(ghost, Ghost("errors.New", NilSlice))
    /\ ret' = Ret("errors.New", Nil, Nil, Len(heap) + 1, TRUE, "", <<>>, <<>>)
    /\ UNCHANGED <<arrays, now>>

\* fmt.Errorf renders inner with Error(): a call on a chain that never renders
\* ends the process, and no state follows it.
Call_FmtErrorf(prefix, inner) ==
    /\ CanAllocate
    /\ ~Overflows(heap, inner)
    /\ heap' = Append(heap, FmtErrorf(heap, prefix, inner))
    /\ ghost' = Append(ghost, Ghost("fmt.Errorf", NilSlice))
    /\ ret' = Ret("fmt.Errorf", inner, Nil, Len(heap) + 1, TRUE, "", <<>>, <<>>)
    /\ UNCHANGED <<arrays, now>>

MakeCauses(elems) ==
    /\ Len(arrays) < MaxArrays
    /\ arrays' = Append(arrays, elems)
    /\ ret' = Ret("MakeCauses", Nil, Nil, Nil, TRUE, "", <<>>, <<>>)
    /\ UNCHANGED <<heap, now, ghost>>

WriteCause(a, i, c) ==
    /\ arrays[a][i] # c
    /\ arrays' = [arrays EXCEPT ![a][i] = c]
    /\ ret' = Ret("WriteCause", Nil, Nil, Nil, TRUE, "", <<>>, <<>>)
    /\ UNCHANGED <<heap, now, ghost>>

(***************************************************************************)
(* The inputs.                                                             *)
(***************************************************************************)
Formats(n) == UNION { [1..k -> FmtAlphabet] : k \in 0..n }

ArgValues == {StrArg("john"), IntArg(123)}

ArgLists(n) == UNION { [1..k -> ArgValues] : k \in 0..n }

\* The message and arguments of TestErrorFormatting.
ExampleFormat ==
    <<"u", "s", "e", "r", " ", "%", "s", " ", "n", "o", "t", " ", "f", "o", "u", "n", "d",
      " ", "w", "i", "t", "h", " ", "i", "d", " ", "%", "d">>

ExampleArgs == <<StrArg("john"), IntArg(123)>>

CauseLists == UNION { [1..k -> CauseValues] : k \in 0..MaxCauses }

\* The codes NewRestErr is given: around the edges of [400,500) and [500,600).
CodeInputs == {-1, 0, 399, 400, 404, 499, 500, 599, 600}

ErrInputs == {"test error", "bad request"}

\* The causes of TestValidationErrors.
TestCauses ==
    << [Field |-> "email", Message |-> "invalid email format"],
       [Field |-> "password", Message |-> "too short"] >>

InitRet ==
    [op |-> "init", arg |-> Nil, arg2 |-> Nil, res |-> Nil, ok |-> TRUE,
     str |-> "", pre |-> 0, message |-> <<>>, args |-> <<>>]

Init ==
    /\ heap = <<>>
    /\ arrays = <<>>
    /\ now = 1
    /\ ghost = <<>>
    /\ ret = InitRet

\* A caller that has made the slice of causes it will pass.
InitWithCauses ==
    /\ heap = <<>>
    /\ arrays = <<TestCauses>>
    /\ now = 1
    /\ ghost = <<>>
    /\ ret = InitRet

(***************************************************************************)
(* Spec: the error chains.  RestErr values are built by a constructor the  *)
(* package's tests chain (NewNotFoundError) and by NewRestErrFromError,    *)
(* other errors by errors.New and fmt.Errorf; WithCause, Unwrap, Error and *)
(* both chain functions act on them.                                       *)
(***************************************************************************)
Next ==
    \/ Call_NewNotFoundError(<<"i", "d", " ", "%", "d">>, <<IntArg(123)>>)
    \/ \E err \in {Nil} \cup Addrs(heap) : Call_NewRestErrFromError(err)
    \/ \E err \in {Nil} \cup Addrs(heap) : Call_ParseError(err)
    \/ \E r \in RestErrs(heap), err \in {Nil} \cup Addrs(heap) : Call_WithCause(r, err)
    \/ \E r \in RestErrs(heap) : Call_Unwrap(r)
    \/ \E r \in RestErrs(heap) : Call_Error(r)
    \/ Call_ErrorsNew("base error")
    \/ \E inner \in Addrs(heap) : Call_FmtErrorf("wrapped", inner)

Spec == Init /\ [][Next]_vars

(***************************************************************************)
(* SpecCall: one constructor call, on any message, arguments, causes and   *)
(* code, and the predicates of the value it returns.                       *)
(***************************************************************************)
CallFormats == Formats(MaxMsgLen) \cup {ExampleFormat}

CallArgs == ArgLists(MaxArgs) \cup {ExampleArgs}

NextCall ==
    \/ heap = <<>> /\ \E message \in CallFormats, args \in CallArgs :
          Call_NewBadRequestError(message, args)
    \/ heap = <<>> /\ \E message \in CallFormats, args \in CallArgs :
          Call_NewInternalServerError(message, args)
    \/ heap = <<>> /\ \E message \in CallFormats, args \in CallArgs :
          Call_NewNotFoundError(message, args)
    \/ heap = <<>> /\ \E message \in CallFormats, args \in CallArgs :
          Call_NewForbiddenError(message, args)
    \/ heap = <<>> /\ \E message \in CallFormats, args \in CallArgs :
          Call_NewUnauthorizedError(message, args)
    \/ heap = <<>> /\ \E message \in CallFormats, args \in CallArgs :
          Call_NewBadGatewayError(message, args)
    \/ heap = <<>> /\ \E message \in CallFormats, args \in CallArgs :
          Call_NewConflictError(message, args)
    \/ heap = <<>> /\ \E message \in CallFormats, args \in CallArgs :
          Call_NewTooManyRequestsError(message, args)
    \/ heap = <<>> /\ \E message \in CallFormats, args \in CallArgs :
          Call_NewServiceUnavailableError(message, args)
    \/ heap = <<>> /\ \E message \in CallFormats, args \in CallArgs :
          Call_NewGatewayTimeoutError(message, args)
    \/ heap = <<>> /\ \E message \in CallFormats, args \in CallArgs :
          Call_NewPreconditionFailedError(message, args)
    \/ heap = <<>> /\ \E message \in CallFormats, args \in CallArgs :
          Call_NewNotAcceptableError(message, args)
    \/ heap = <<>> /\ \E message \in CallFormats, args \in CallArgs :
          Call_NewLengthRequiredError(message, args)
    \/ heap = <<>> /\ \E message \in CallFormats, args \in CallArgs :
          Call_NewUnsupportedMediaTypeError(message, args)
    \/ heap = <<>> /\ \E message \in CallFormats, args \in CallArgs :
          Call_NewExpectationFailedError(message, args)
    \/ heap = <<>> /\ \E message \in CallFormats, args \in CallArgs :
          Call_NewRequestTimeoutError(message, args)
    \/ heap = <<>> /\ \E message \in CallFormats, args \in CallArgs :
          Call_NewHttpVersionNotSupportedError(message, args)
    \/ heap = <<>> /\ \E message \in Formats(1), causes \in CallerSlices(arrays) :
          Call_NewBadRequestValidationError(message, causes)
    \/ heap = <<>> /\ \E message \in Formats(1), causes \in CallerSlices(arrays) :
          Call_NewUnprocessableEntityError(message, causes)
    \/ heap = <<>> /\ \E message \in Formats(1), causes \in CallerSlices(arrays) :
          Call_NewConflictValidationError(message, causes)
    \/ heap = <<>> /\ \E message \in Formats(1), err \in ErrInputs, code \in CodeInputs,
                         causes \in CallerSlices(arrays) :
          Call_NewRestErr(message, err, code, causes)
    \/ \E r \in RestErrs(heap) : Call_IsClientError(r)
    \/ \E r \in RestErrs(heap) : Call_IsServerError(r)
    \/ \E r \in RestErrs(heap) : Call_IsNotFound(r)
    \/ \E r \in RestErrs(heap) : Call_IsUnauthorized(r)
    \/ \E r \in RestErrs(heap) : Call_IsForbidden(r)

SpecCall == InitWithCauses /\ [][NextCall]_vars

(***************************************************************************)
(* SpecCtors: the values of every constructor side by side, up to          *)
(* MaxValues of them.                                                      *)
(***************************************************************************)
NextCtors ==
    \/ Len(heap) < MaxValues /\ Call_NewBadRequestError(<<"u">>, <<>>)
    \/ Len(heap) < MaxValues /\ Call_NewInternalServerError(<<"u">>, <<>>)
    \/ Len(heap) < MaxValues /\ Call_NewNotFoundError(<<"u">>, <<>>)
    \/ Len(heap) < MaxValues /\ Call_NewForbiddenError(<<"u">>, <<>>)
    \/ Len(heap) < MaxValues /\ Call_NewUnauthorizedError(<<"u">>, <<>>)
    \/ Len(heap) < MaxValues /\ Call_NewBadGatewayError(<<"u">>, <<>>)
    \/ Len(heap) < MaxValues /\ Call_NewConflictError(<<"u">>, <<>>)
    \/ Len(heap) < MaxValues /\ Call_NewTooManyRequestsError(<<"u">>, <<>>)
    \/ Len(heap) < MaxValues /\ Call_NewServiceUnavailableError(<<"u">>, <<>>)
    \/ Len(heap) < MaxValues /\ Call_NewGatewayTimeoutError(<<"u">>, <<>>)
    \/ Len(heap) < MaxValues /\ Call_NewPreconditionFailedError(<<"u">>, <<>>)
    \/ Len(heap) < MaxValues /\ Call_NewNotAcceptableError(<<"u">>, <<>>)
    \/ Len(heap) < MaxValues /\ Call_NewLengthRequiredError(<<"u">>, <<>>)
    \/ Len(heap) < MaxValues /\ Call_NewUnsupportedMediaTypeError(<<"u">>, <<>>)
    \/ Len(heap) < MaxValues /\ Call_NewExpectationFailedError(<<"u">>, <<>>)
    \/ Len(heap) < MaxValues /\ Call_NewRequestTimeoutError(<<"u">>, <<>>)
    \/ Len(heap) < MaxValues /\ Call_NewHttpVersionNotSupportedError(<<"u">>, <<>>)
    \/ Len(heap) < MaxValues /\ \E causes \in CallerSlices(arrays) :
          Call_NewBadRequestValidationError(<<"u">>, causes)
    \/ Len(heap) < MaxValues /\ \E causes \in CallerSlices(arrays) :
          Call_NewUnprocessableEntityError(<<"u">>, causes)
    \/ Len(heap) < MaxValues /\ \E causes \in CallerSlices(arrays) :
          Call_NewConflictValidationError(<<"u">>, causes)
    \/ Len(heap) < MaxValues /\ \E err \in ErrInputs, code \in {400, 404, 600},
                                     causes \in CallerSlices(arrays) :
          Call_NewRestErr(<<"u">>, err, code, causes)
    \/ Len(heap) < MaxValues /\ Call_ErrorsNew("base error")
    \/ Len(heap) < MaxValues /\ \E err \in {Nil} \cup Addrs(heap) :
          Call_NewRestErrFromError(err)

SpecCtors == InitWithCauses /\ [][NextCtors]_vars

(***************************************************************************)
(* SpecCauses: a caller makes slices of causes, passes them to the         *)
(* constructors that take causes, and goes on writing to them.             *)
(***************************************************************************)
NextCauses ==
    \/ Len(heap) < MaxValues /\ \E causes \in CallerSlices(arrays) :
          Call_NewBadRequestValidationError(<<"u">>, causes)
    \/ Len(heap) < MaxValues /\ \E causes \in CallerSlices(arrays) :
          Call_NewUnprocessableEntityError(<<"u">>, causes)
    \/ Len(heap) < MaxValues /\ \E causes \in CallerSlices(arrays) :
          Call_NewConflictValidationError(<<"u">>, causes)
    \/ Len(heap) < MaxValues /\ \E causes \in CallerSlices(arrays) :
          Call_NewRestErr(<<"u">>, "test error", 400, causes)
    \/ \E r \in RestErrs(heap), err \in {Nil} \cup Addrs(heap) : Call_WithCause(r, err)
    \/ \E r \in RestErrs(heap) : Call_Unwrap(r)
    \/ \E r \in RestErrs(heap) : Call_Error(r)
    \/ \E elems \in CauseLists : MakeCauses(elems)
    \/ \E a \in 1..Len(arrays) : \E i \in 1..Len(arrays[a]), c \in CauseValues :
          WriteCause(a, i, c)

SpecCauses == Init /\ [][NextCauses]_vars

(***************************************************************************)
(* SpecFrame: values with and without causes, and every operation of the   *)
(* package on them, while the caller goes on writing to the slice it       *)
(* passed.                                                                 *)
(***************************************************************************)
NextFrame ==
    \/ Len(heap) < MaxValues /\ \E causes \in CallerSlices(arrays) :
          Call_NewBadRequestValidationError(<<"u">>, causes)
    \/ Len(heap) < MaxValues /\ Call_ErrorsNew("base error")
    \/ \E err \in {Nil} \cup Addrs(heap) : Call_NewRestErrFromError(err)
    \/ \E err \in {Nil} \cup Addrs(heap) : Call_ParseError(err)
    \/ \E r \in RestErrs(heap), err \in {Nil} \cup Addrs(heap) : Call_WithCause(r, err)
    \/ \E r \in RestErrs(heap) : Call_Unwrap(r)
    \/ \E r \in RestErrs(heap) : Call_Error(r)
    \/ \E r \in RestErrs(heap) : Call_IsClientError(r)
    \/ \E r \in RestErrs(heap) : Call_IsServerError(r)
    \/ \E r \in RestErrs(heap) : Call_IsNotFound(r)
    \/ \E r \in RestErrs(heap) : Call_IsUnauthorized(r)
    \/ \E r \in RestErrs(heap) : Call_IsForbidden(r)
    \/ \E a \in 1..Len(arrays) : \E i \in 1..Len(arrays[a]), c \in CauseValues :
          WriteCause(a, i, c)

SpecFrame == InitWithCauses /\ [][NextFrame]_vars

(***************************************************************************)
(* What the claims speak of, said without the package's own functions.     *)
(***************************************************************************)
\* The values met walking a's chain with Unwrap, a included.
RECURSIVE ChainFrom(_, _, _)
ChainFrom(h, a, seen) ==
    IF a = Nil \/ a \in seen THEN seen
    ELSE ChainFrom(h, ChainNext(h, a), seen \cup {a})

Chain(h, a) == ChainFrom(h, a, {})

\* The RestErr values that a is, or wraps at any depth.
RestErrsIn(h, a) == Chain(h, a) \cap RestErrs(h)

\* a wraps a wrapper of b: b is two fmt.Errorf levels down.
WrapsTwice(h, a, b) ==
    /\ a # Nil /\ h[a].kind = "wrapError"
    /\ h[h[a].Wrapped].kind = "wrapError"
    /\ h[h[a].Wrapped].Wrapped = b

(***************************************************************************)
(* C1.  NewRestErrFromError applied to a non-nil error that is, or wraps   *)
(* at any depth, a RestErr returns a RestErr of that chain, and the call   *)
(* changes nothing: no field of any value, no backing array, and no value  *)
(* is allocated.                                                           *)
(***************************************************************************)
C1_FromErrorReturnsTheRestErr ==
    [][ ( /\ ret'.op = "NewRestErrFromError"
          /\ ret'.arg # Nil
          /\ RestErrsIn(heap, ret'.arg) # {} )
        => /\ ret'.res \in RestErrsIn(heap, ret'.arg)
           /\ heap' = heap
           /\ arrays' = arrays ]_vars

C1_Witness ==
    /\ ret.op = "NewRestErrFromError"
    /\ IsRestErr(heap, ret.res)
    /\ WrapsTwice(heap, ret.arg, ret.res)
    /\ Len(heap) = ret.pre

(***************************************************************************)
(* C2.  NewRestErrFromError(nil) is nil; for a non-nil error whose chain   *)
(* holds no RestErr it returns a new RestErr with Code 500 and class       *)
(* "internal server error" whose Unwrap() is the error given, so that      *)
(* errors.Is(result, error) holds.                                         *)
(***************************************************************************)
C2_FromErrorDefaultsTo500 ==
    ret.op = "NewRestErrFromError" =>
        /\ ret.arg = Nil => (ret.res = Nil /\ Len(heap) = ret.pre)
        /\ (ret.arg # Nil /\ RestErrsIn(heap, ret.arg) = {}) =>
              /\ ret.res = ret.pre + 1
              /\ ret.res = Len(heap)
              /\ heap[ret.res].kind = "RestErr"
              /\ heap[ret.res].Code = 500
              /\ heap[ret.res].Err = "internal server error"
              /\ Unwrap(heap, ret.res) = ret.arg
              /\ ErrorsIs(heap, ret.res, ret.arg) = "true"

C2_Witness ==
    /\ ret.op = "NewRestErrFromError"
    /\ ret.arg # Nil
    /\ heap[ret.arg].kind = "wrapError"
    /\ RestErrsIn(heap, ret.arg) = {}
    /\ ret.res = Len(heap)
    /\ heap[ret.res].Code = 500

(***************************************************************************)
(* C3.  ParseError(err) reports true exactly when err is non-nil and its   *)
(* chain holds a RestErr; then it returns a RestErr of that chain, and     *)
(* otherwise (nil, false); in both cases it changes and allocates nothing. *)
(***************************************************************************)
C3_ParseErrorFindsOrReportsNotFound ==
    [][ ret'.op = "ParseError"
        => /\ ret'.ok <=> (ret'.arg # Nil /\ RestErrsIn(heap, ret'.arg) # {})
           /\ ret'.ok => ret'.res \in RestErrsIn(heap, ret'.arg)
           /\ ~ret'.ok => ret'.res = Nil
           /\ heap' = heap
           /\ arrays' = arrays ]_vars

C3_Witness ==
    /\ ret.op = "ParseError"
    /\ ret.ok
    /\ IsRestErr(heap, ret.res)
    /\ WrapsTwice(heap, ret.arg, ret.res)

(***************************************************************************)
(* C4.  r.WithCause(e), e non-nil, returns r, and then r.Unwrap() is e and *)
(* errors.Is finds e from r and from every error that wraps r.             *)
(***************************************************************************)
C4_WithCauseThenUnwrap ==
    (ret.op = "WithCause" /\ ret.arg2 # Nil) =>
        /\ ret.res = ret.arg
        /\ Unwrap(heap, ret.arg) = ret.arg2
        /\ \A x \in Addrs(heap) :
              ret.arg \in Chain(heap, x) => ErrorsIs(heap, x, ret.arg2) = "true"

C4_Witness ==
    /\ ret.op = "WithCause"
    /\ ret.arg2 # Nil
    /\ heap[ret.arg2].kind = "errorString"
    /\ \E x \in Addrs(heap) :
          /\ heap[x].kind = "wrapError"
          /\ heap[x].Wrapped = ret.arg
          /\ ErrorsIs(heap, x, ret.arg2) = "true"

(***************************************************************************)
(* C8.  When r.Error() returns, it is r's Message alone if r has no        *)
(* wrapped cause, and otherwise the Messages of r and of the RestErr       *)
(* causes under it, then the text of the first cause that is no RestErr,   *)
(* each joined to the next by ": ".                                        *)
(***************************************************************************)
\* r, then its causes for as long as they are RestErr, then the first that is not.
RECURSIVE RenderPath(_, _, _)
RenderPath(h, a, fuel) ==
    IF a = Nil \/ fuel = 0 THEN <<>>
    ELSE IF h[a].kind # "RestErr" THEN <<a>>
    ELSE <<a>> \o RenderPath(h, h[a].Wrapped, fuel - 1)

RECURSIVE JoinTexts(_, _)
JoinTexts(h, path) ==
    IF Len(path) = 1 THEN h[path[1]].Message
    ELSE h[path[1]].Message \o ": " \o JoinTexts(h, Tail(path))

C8_ErrorJoinsMessageAndCause ==
    (ret.op = "Error" /\ ret.ok) =>
        /\ ret.str = JoinTexts(heap, RenderPath(heap, ret.arg, Len(heap)))
        /\ heap[ret.arg].Wrapped = Nil => ret.str = heap[ret.arg].Message

C8_Witness ==
    /\ ret.op = "Error"
    /\ ret.ok
    /\ IsRestErr(heap, heap[ret.arg].Wrapped)
    /\ heap[ret.arg].Wrapped # ret.arg
    /\ heap[heap[ret.arg].Wrapped].Wrapped # Nil
    /\ ret.str = "id 123: id 123: base error"

(***************************************************************************)
(* C5.  Every status-specific constructor returns a value whose Code and   *)
(* Err are the pair documented for it, whatever message, arguments and     *)
(* causes it is given.                                                     *)
(***************************************************************************)
\* The pairs the package's tests expect (TestErrorConstructors,
\* TestValidationErrors) and its specification names.
Documented ==
    {
      [ctor |-> "NewBadRequestError", code |-> 400, err |-> "bad request"],
      [ctor |-> "NewInternalServerError", code |-> 500, err |-> "internal server error"],
      [ctor |-> "NewNotFoundError", code |-> 404, err |-> "not found"],
      [ctor |-> "NewForbiddenError", code |-> 403, err |-> "forbidden"],
      [ctor |-> "NewUnauthorizedError", code |-> 401, err |-> "unauthorized"],
      [ctor |-> "NewBadGatewayError", code |-> 502, err |-> "bad gateway"],
      [ctor |-> "NewConflictError", code |-> 409, err |-> "conflict"],
      [ctor |-> "NewTooManyRequestsError", code |-> 429, err |-> "too many requests"],
      [ctor |-> "NewServiceUnavailableError", code |-> 503, err |-> "service unavailable"],
      [ctor |-> "NewGatewayTimeoutError", code |-> 504, err |-> "gateway timeout"],
      [ctor |-> "NewPreconditionFailedError", code |-> 412, err |-> "precondition failed"],
      [ctor |-> "NewNotAcceptableError", code |-> 406, err |-> "not acceptable"],
      [ctor |-> "NewLengthRequiredError", code |-> 411, err |-> "length required"],
      [ctor |-> "NewUnsupportedMediaTypeError", code |-> 415, err |-> "unsupported media type"],
      [ctor |-> "NewExpectationFailedError", code |-> 417, err |-> "expectation failed"],
      [ctor |-> "NewRequestTimeoutError", code |-> 408, err |-> "request timeout"],
      [ctor |-> "NewHttpVersionNotSupportedError", code |-> 505, err |-> "http version not supported"],
      [ctor |-> "NewBadRequestValidationError", code |-> 400, err |-> "bad request"],
      [ctor |-> "NewUnprocessableEntityError", code |-> 422, err |-> "unprocessable entity"],
      [ctor |-> "NewConflictValidationError", code |-> 409, err |-> "conflict"]
    }

C5_ConstructorsFixCodeAndErr ==
    ret.op \in { d.ctor : d \in Documented } =>
        [ctor |-> ret.op, code |-> heap[ret.res].Code, err |-> heap[ret.res].Err]
            \in Documented

C5_Witness ==
    /\ ret.op = "NewBadGatewayError"
    /\ ret.message = ExampleFormat
    /\ ret.args = ExampleArgs
    /\ heap[ret.res].Code = 502
    /\ heap[ret.res].Err = "bad gateway"

(***************************************************************************)
(* C6.  As claimed: every RestErr that exists, whichever exported          *)
(* constructor built it, has a Code of the fixed set, and Code and Err     *)
(* determine each other.                                                   *)
(***************************************************************************)
FixedCodes ==
    {400, 401, 403, 404, 406, 408, 409, 411, 412, 415, 417, 422, 429, 500, 502, 503, 504, 505}

OneToOne(h, rs) ==
    \A a, b \in rs : (h[a].Code = h[b].Code) <=> (h[a].Err = h[b].Err)

BuiltWithFixedPair(h) == { r \in RestErrs(h) : ghost[r].ctor # "NewRestErr" }

C7_ClientAndServerRanges ==
    /\ ret.op = "IsClientError" => (ret.ok <=> heap[ret.arg].Code \in 400..499)
    /\ ret.op = "IsServerError" => (ret.ok <=> heap[ret.arg].Code \in 500..599)
    /\ \A r \in RestErrs(heap) :
          /\ ~(IsClientError(heap, r) /\ IsServerError(heap, r))
          /\ heap[r].Code \notin 400..599 =>
                (~IsClientError(heap, r) /\ ~IsServerError(heap, r))

C7_Witness ==
    /\ ret.op = "IsClientError"
    /\ heap[ret.arg].Code = 500
    /\ ~ret.ok
    /\ IsServerError(heap, ret.arg)

(***************************************************************************)
(* C9.  As claimed: the Causes of a RestErr stay equal to the sequence it  *)
(* was given when it was built, whatever the caller does afterwards to the *)
(* slice it passed.                                                        *)
(***************************************************************************)
C9_CausesAreASnapshot ==
    \A r \in RestErrs(heap) :
        SliceElems(arrays, heap[r].Causes) = ghost[r].causes0

(***************************************************************************)
(* C10.  As claimed: a printf-style constructor called with no format      *)
(* arguments stores exactly the message it is given, whatever the message; *)
(* called with arguments that match its verbs, it stores the message with  *)
(* each verb replaced by its argument.                                     *)
(***************************************************************************)
PrintfConstructors ==
    {
      "NewBadRequestError", "NewInternalServerError", "NewNotFoundError",
      "NewForbiddenError", "NewUnauthorizedError", "NewBadGatewayError",
      "NewConflictError", "NewTooManyRequestsError", "NewServiceUnavailableError",
      "NewGatewayTimeoutError", "NewPreconditionFailedError", "NewNotAcceptableError",
      "NewLengthRequiredError", "NewUnsupportedMediaTypeError",
      "NewExpectationFailedError", "NewRequestTimeoutError",
      "NewHttpVersionNotSupportedError"
    }

\* The character after each '%' of format, from position i on ("": none).
RECURSIVE VerbsOf(_, _)
VerbsOf(format, i) ==
    IF i > Len(format) THEN <<>>
    ELSE IF format[i] # "%" THEN VerbsOf(format, i + 1)
    ELSE IF i = Len(format) THEN <<"">>
    ELSE <<format[i + 1]>> \o VerbsOf(format, i + 2)

\* One %s per string argument and one %d per int argument, in order.
VerbsMatch(format, args) ==
    LET verbs == VerbsOf(format, 1) IN
    /\ Len(verbs) = Len(args)
    /\ \A k \in 1..Len(verbs) :
          \/ verbs[k] = "s" /\ args[k].type = "string"
          \/ verbs[k] = "d" /\ args[k].type = "int"

\* format with its k-th verb replaced by the k-th argument (where VerbsMatch).
RECURSIVE Substituted(_, _, _, _)
Substituted(format, args, i, k) ==
    IF i > Len(format) THEN ""
    ELSE IF format[i] = "%"
    THEN ArgText(args[k]) \o Substituted(format, args, i + 2, k + 1)
    ELSE format[i] \o Substituted(format, args, i + 1, k)

HasPercent(message) == \E i \in 1..Len(message) : message[i] = "%"

C10_Original ==
    ret.op \in PrintfConstructors =>
        /\ ret.args = <<>> => heap[ret.res].Message = Text(ret.message)
        /\ (ret.args # <<>> /\ VerbsMatch(ret.message, ret.args)) =>
              heap[ret.res].Message = Substituted(ret.message, ret.args, 1, 1)

(***************************************************************************)
(* C10, amended.  For every message that holds no '%', a printf-style      *)
(* constructor called with no format arguments stores exactly the message  *)
(* (a '%' in it is read as the start of a verb); called with arguments     *)
(* that match its verbs in number and type, it stores the message with     *)
(* each verb replaced by its argument.                                     *)
(***************************************************************************)
C10_MessageIsFormatted ==
    ret.op \in PrintfConstructors =>
        /\ (ret.args = <<>> /\ ~HasPercent(ret.message)) =>
              heap[ret.res].Message = Text(ret.message)
        /\ (ret.args # <<>> /\ VerbsMatch(ret.message, ret.args)) =>
              heap[ret.res].Message = Substituted(ret.message, ret.args, 1, 1)

C10_Witness ==
    /\ ret.op = "NewBadRequestError"
    /\ ret.message = ExampleFormat
    /\ ret.args = ExampleArgs
    /\ heap[ret.res].Message = "user john not found with id 123"

(***************************************************************************)
(* C11.  An unknown error does not show in what is serialized: every       *)
(* NewRestErrFromError of a non-nil error whose chain holds no RestErr     *)
(* gives a value whose serialized message, error, code and causes are the  *)
(* generic message, "internal server error", 500 and no causes, the same   *)
(* for any other such error, whatever its text; the error given is kept in *)
(* Wrapped, which is no part of the serialized object.                     *)
(***************************************************************************)
VisibleKeys == {"message", "error", "code", "causes"}

Visible(obj) == [k \in DOMAIN obj \cap VisibleKeys |-> obj[k]]

GenericInternalError ==
    ("message" :> "An unexpected error occurred")
    @@ ("error" :> "internal server error") @@ ("code" :> 500)

C11_UnknownErrorsDoNotLeak ==
    (ret.op = "NewRestErrFromError" /\ ret.arg # Nil /\ RestErrsIn(heap, ret.arg) = {}) =>
        /\ Visible(Serialized(heap, arrays, ret.res)) = GenericInternalError
        /\ DOMAIN Serialized(heap, arrays, ret.res) \subseteq VisibleKeys \cup {"timestamp"}
        /\ heap[ret.res].Wrapped = ret.arg
        /\ \A e2 \in Addrs(heap) :
              RestErrsIn(heap, e2) = {} =>
                 LET out == NewRestErrFromError(e2) IN
                 Visible(Serialized(out.heap, arrays, out.res))
                    = Visible(Serialized(heap, arrays, ret.res))

C11_Witness ==
    /\ ret.op = "NewRestErrFromError"
    /\ ret.arg # Nil
    /\ RestErrsIn(heap, ret.arg) = {}
    /\ heap[ret.res].Wrapped = ret.arg
    /\ \E e2 \in Addrs(heap) :
          /\ RestErrsIn(heap, e2) = {}
          /\ Error(heap, e2) # Error(heap, ret.arg)

(***************************************************************************)
(* C12.  No operation of the package changes the Message, Err, Code,       *)
(* Causes or Timestamp of a RestErr that exists: not WithCause, Unwrap,    *)
(* Error, the Is* predicates, ParseError or NewRestErrFromError, nor a     *)
(* later constructor call.  Wrapped changes only in a WithCause call on    *)
(* that RestErr.  (The elements of Causes are compared on every step but   *)
(* the caller's own write to the slice.)                                   *)
(***************************************************************************)
C12_OnlyWithCauseChangesOnlyWrapped ==
    [][ \A r \in RestErrs(heap) :
          /\ heap'[r].kind = heap[r].kind
          /\ heap'[r].Message = heap[r].Message
          /\ heap'[r].Err = heap[r].Err
          /\ heap'[r].Code = heap[r].Code
          /\ heap'[r].Timestamp = heap[r].Timestamp
          /\ heap'[r].Causes = heap[r].Causes
          /\ ret'.op # "WriteCause" =>
                SliceElems(arrays', heap'[r].Causes) = SliceElems(arrays, heap[r].Causes)
          /\ heap'[r].Wrapped # heap[r].Wrapped =>
                (ret'.op = "WithCause" /\ ret'.arg = r) ]_vars

C12_Witness ==
    /\ ret.op = "WithCause"
    /\ ret.arg2 # Nil
    /\ heap[ret.arg].Wrapped = ret.arg2
    /\ ghost[ret.arg].causes0 # <<>>
    /\ SliceElems(arrays, heap[ret.arg].Causes) = ghost[ret.arg].causes0
    /\ \E other \in RestErrs(heap) : other # ret.arg /\ heap[other].Wrapped = Nil

(***************************************************************************)
(* C13.  When the chain of the error given holds more than one RestErr,    *)
(* ParseError and NewRestErrFromError return the outermost: the one met    *)
(* first walking the chain from the error given, with no RestErr before    *)
(* it.  On every error whose chain holds a RestErr the two functions       *)
(* return the same value.                                                  *)
(***************************************************************************)
\* The value n Unwrap steps down from a (Nil past the end).
RECURSIVE Nth(_, _, _)
Nth(h, a, n) ==
    IF n = 0 \/ a = Nil THEN a ELSE Nth(h, ChainNext(h, a), n - 1)

Outermost(h, a) ==
    CHOOSE x \in RestErrs(h) :
        \E n \in 0..Len(h) :
            /\ Nth(h, a, n) = x
            /\ \A m \in 0..(n - 1) : Nth(h, a, m) \notin RestErrs(h)

C13_BothReturnTheOutermost ==
    /\ ( /\ ret.op \in {"ParseError", "NewRestErrFromError"}
         /\ ret.arg # Nil
         /\ Cardinality(RestErrsIn(heap, ret.arg)) > 1 )
       => ret.res = Outermost(heap, ret.arg)
    /\ \A e \in Addrs(heap) :
          RestErrsIn(heap, e) # {} =>
             /\ ParseError(e).res = NewRestErrFromError(e).res
             /\ ParseError(e).res = Outermost(heap, e)

C13_Witness ==
    /\ ret.op = "NewRestErrFromError"
    /\ ret.arg # Nil
    /\ heap[ret.arg].kind = "wrapError"
    /\ Cardinality(RestErrsIn(heap, ret.arg)) = 2
    /\ ret.res = heap[ret.arg].Wrapped
    /\ IsRestErr(heap, heap[ret.res].Wrapped)
    /\ heap[ret.res].Wrapped # ret.res
    /\ ParseError(ret.arg).res = ret.res

====
